---- MODULE Spec2Model ----
(***************************************************************************)
(* Model of the task registry (TaskManager), of the wave scheduler         *)
(* (execute_all_tasks_parallel) and of the workers' message board          *)
(* (SharedMessageBoard) of src/tools/ManagementTools.py.                   *)
(*                                                                         *)
(* A behaviour of Spec is: the manager installs a task list with           *)
(* create_todo_list, the scheduler runs it wave by wave, and the registry  *)
(* is reset before the next list is installed and run.                     *)
(* A behaviour of SpecAPI is: the methods of the TaskManager are called in *)
(* any order, with well-formed and malformed inputs.                       *)
(* A behaviour of SpecBoard is: the workers of a run post to the board and *)
(* read it, their coroutines interleaved at every step of post.            *)
(***************************************************************************)
EXTENDS Integers, Sequences, FiniteSets, TLC

VARIABLES
    tasks,           \* TaskManager.tasks: task id -> Task
    task_order,      \* TaskManager.task_order: list of task ids
    pc,              \* position of the scheduler coroutine
    max_concurrent,  \* argument of execute_all_tasks_parallel
    wave,            \* loop variable of the scheduler
    ready_tasks,     \* local ready_tasks of the current wave (ids of the Task objects)
    idx,             \* position of the marking loop / of the result loop
    inv,             \* state of each _run_one coroutine of the wave
    results,         \* what asyncio.gather returns, by position
    sem,             \* free slots of the wave's asyncio.Semaphore
    outcome,         \* diagnosis logged when the ready set is empty
    report,          \* value returned to the caller (get_final_summary)
    dispatched,      \* history: task id -> number of invocations created for it in this run
    n_waves,         \* history: number of waves that dispatched workers in this run
    posted,          \* history: task id -> number of "completed" messages its worker
                     \*   posted to the board of this run
    prompt,          \* the retry part of the prompt each invocation of the wave is given
    call,            \* the last call of a TaskManager method: its name, argument, return
    n_calls,         \* number of mark_* calls made on the current task list
    messages,        \* SharedMessageBoard._messages
    lock,            \* SharedMessageBoard._lock: the worker that holds it
    wpc,             \* worker id -> position of the worker in post / get_updates
    args,            \* worker id -> arguments and local list of its post in progress
    ret,             \* worker id -> what get_updates returned, while it is the
                     \*   last call the worker made
    n_posts,         \* number of post calls made on the board
    last_post        \* history: worker id -> the message of its last post that returned

\* TaskManager
regVars == <<tasks, task_order>>

\* execute_all_tasks_parallel
runVars == <<pc, max_concurrent, wave, ready_tasks, idx, inv, results, sem,
             outcome, report, dispatched, n_waves, posted, prompt>>

\* the caller of the TaskManager methods
apiVars == <<call, n_calls>>

\* SharedMessageBoard and its workers
boardVars == <<messages, lock, wpc, args, ret, n_posts, last_post>>

vars == <<regVars, runVars, apiVars, boardVars>>

-----------------------------------------------------------------------------
(* Bounds of the model *)

\* longest task list given to create_todo_list, the chains apart
MaxLen == 2
\* largest max_concurrent passed to execute_all_tasks_parallel
MaxConcurrent == 2
\* the waves of a run in which an invocation may raise
FaultWaves == {1}
\* most mark_* calls made on one task list when the methods are called in any order
MaxCalls == 3
\* most post calls made on one board
MaxPosts == 3

-----------------------------------------------------------------------------
(* The data model *)

PENDING == "pending"
IN_PROGRESS == "running"
COMPLETED == "completed"
FAILED == "failed"

\* Task.max_retries: the dataclass default, never overridden by create_todo_list
max_retries == 3

\* max_waves of execute_all_tasks_parallel
max_waves == 15

\* a record of the input without the "id" key
NoId == "none"

\* Task.result before any completion
NoResult == [kind |-> "none", wave |-> 0, slot |-> 0]

\* the Task dataclass with its defaults
Task(id, deps) ==
    [id |-> id, status |-> PENDING, result |-> NoResult, retry_count |-> 0,
     max_retries |-> max_retries, dependencies |-> deps, failure_history |-> <<>>]

\* ids the input records carry
Ids == {"1", "2"}

\* dependency lists the input records carry; "9" names no task
DepLists == {<<>>, <<"1">>, <<"2">>, <<"9">>, <<"1", "9">>, <<"9", "2">>}

TaskData == [id : Ids \cup {NoId}, dependencies : DepLists]

\* an element of the parsed input that is not a record (a number, a string, or
\* a key of an input that is an object instead of a list): it has no get()
Malformed == [id |-> "not a record", dependencies |-> <<>>]

\* the shortest dependency chain whose retries use up every wave and leave a
\* task that was never started
MaxChain == (max_waves \div max_retries) + 1

\* a chain 1 <- 2 <- ... <- n
Chain(n) ==
    [i \in 1..n |-> [id |-> ToString(i),
                     dependencies |-> IF i = 1 THEN <<>> ELSE <<ToString(i - 1)>>]]

\* two independent tasks, and a third that waits for the second
Branches ==
    <<[id |-> "1", dependencies |-> <<>>],
      [id |-> "2", dependencies |-> <<>>],
      [id |-> "3", dependencies |-> <<"2">>]>>

\* a task whose id two records carry, and a task that waits for it
Repeated ==
    <<[id |-> "1", dependencies |-> <<>>],
      [id |-> "1", dependencies |-> <<>>],
      [id |-> "2", dependencies |-> <<"1">>]>>

\* the task lists given to create_todo_list
TaskLists ==
    UNION {[1..n -> TaskData] : n \in 0..MaxLen}
    \cup {Chain(n) : n \in 1..MaxChain}
    \cup {Branches, Repeated}

-----------------------------------------------------------------------------
(* TaskManager *)

\* task_data.get("dependencies", [])
Dependencies(task_data) ==
    IF "dependencies" \in DOMAIN task_data THEN task_data.dependencies ELSE <<>>

\* the loop of create_todo_list over the parsed records; task_data.get raises
\* on an element that is not a record and the loop is left where it stands
RECURSIVE CreateLoop(_, _, _)
CreateLoop(tasks_data, ts, order) ==
    IF tasks_data = <<>> THEN [tasks |-> ts, task_order |-> order, raised |-> FALSE]
    ELSE IF Head(tasks_data) = Malformed
    THEN [tasks |-> ts, task_order |-> order, raised |-> TRUE]
    ELSE LET task_data == Head(tasks_data)
             task_id == IF task_data.id = NoId
                        THEN ToString(Cardinality(DOMAIN ts) + 1)
                        ELSE task_data.id
             task == Task(task_id, Dependencies(task_data))
         IN CreateLoop(Tail(tasks_data),
                       (task_id :> task) @@ ts,
                       Append(order, task_id))

\* DepsSatisfied with the break lost: the last dependency alone decides
DepsSatisfied_LastOnly(ts, deps) ==
    \/ deps = <<>>
    \/ deps[Len(deps)] \notin DOMAIN ts
    \/ ts[deps[Len(deps)]].status = COMPLETED

\* DepsSatisfied without the continue: an id that names no task blocks
DepsSatisfied_UnknownBlocks(ts, deps) ==
    \A i \in 1..Len(deps) :
        deps[i] \in DOMAIN ts /\ ts[deps[i]].status = COMPLETED

\* DepsSatisfied that asks of a dependency only that it is no longer Pending
DepsSatisfied_Started(ts, deps) ==
    \A i \in 1..Len(deps) :
        deps[i] \notin DOMAIN ts \/ ts[deps[i]].status # PENDING

\* the inner loop of get_all_ready_tasks over task.dependencies
DepsSatisfied(ts, deps) ==
    \A i \in 1..Len(deps) :
        deps[i] \notin DOMAIN ts \/ ts[deps[i]].status = COMPLETED

\* IsReady without the dependency loop
IsReady_NoDeps(ts, task_id) == ts[task_id].status = PENDING

\* the test get_all_ready_tasks makes for one entry of task_order
IsReady(ts, task_id) ==
    /\ ts[task_id].status = PENDING
    /\ DepsSatisfied(ts, ts[task_id].dependencies)

\* GetAllReadyTasks that finds nothing once a task has failed for good
GetAllReadyTasks_NoneAfterFailure(ts, order) ==
    IF \E id \in DOMAIN ts : ts[id].status = FAILED THEN <<>>
    ELSE SelectSeq(order, LAMBDA task_id : IsReady(ts, task_id))

GetAllReadyTasks(ts, order) ==
    SelectSeq(order, LAMBDA task_id : IsReady(ts, task_id))

\* MarkTaskInProgress that registers the id it does not find
MarkTaskInProgress_Upsert(ts, task_id) ==
    IF task_id \notin DOMAIN ts
    THEN (task_id :> [Task(task_id, <<>>) EXCEPT !.status = IN_PROGRESS]) @@ ts
    ELSE [ts EXCEPT ![task_id].status = IN_PROGRESS]

MarkTaskInProgress(ts, task_id) ==
    IF task_id \notin DOMAIN ts THEN ts
    ELSE [ts EXCEPT ![task_id].status = IN_PROGRESS]

MarkTaskComplete(ts, task_id, result) ==
    IF task_id \notin DOMAIN ts THEN ts
    ELSE [ts EXCEPT ![task_id].status = COMPLETED, ![task_id].result = result]

\* StatusAfterFailure that allows one attempt more
StatusAfterFailure_OneMore(retry_count, limit) ==
    IF retry_count > limit THEN FAILED ELSE PENDING

\* the status mark_task_failed gives a task after counting the failure
StatusAfterFailure(retry_count, limit) ==
    IF retry_count >= limit THEN FAILED ELSE PENDING

\* MarkTaskFailed that puts the reason at the front of the history
MarkTaskFailed_Prepend(ts, task_id, reason) ==
    IF task_id \notin DOMAIN ts THEN ts
    ELSE LET task == ts[task_id]
             n == task.retry_count + 1
         IN [ts EXCEPT ![task_id].failure_history = <<reason>> \o task.failure_history,
                       ![task_id].retry_count = n,
                       ![task_id].status = StatusAfterFailure(n, task.max_retries)]

MarkTaskFailed(ts, task_id, reason) ==
    IF task_id \notin DOMAIN ts THEN ts
    ELSE LET task == ts[task_id]
             n == task.retry_count + 1
         IN [ts EXCEPT ![task_id].failure_history = Append(task.failure_history, reason),
                       ![task_id].retry_count = n,
                       ![task_id].status = StatusAfterFailure(n, task.max_retries)]

\* IsAllCompleted with any() for all()
IsAllCompleted_Any(ts) == \E id \in DOMAIN ts : ts[id].status = COMPLETED

IsAllCompleted(ts) == \A id \in DOMAIN ts : ts[id].status = COMPLETED

HasFailedTasks(ts) == \E id \in DOMAIN ts : ts[id].status = FAILED

\* the closing verdict of get_final_summary
Verdict(ts) ==
    IF IsAllCompleted(ts) THEN "All tasks completed successfully!"
    ELSE IF HasFailedTasks(ts) THEN "Some tasks failed"
    ELSE "Tasks in progress..."

\* the content of the report of get_final_summary
GetFinalSummary(ts, order) ==
    [completed |-> SelectSeq(order, LAMBDA id : ts[id].status = COMPLETED),
     failed |-> SelectSeq(order, LAMBDA id : ts[id].status = FAILED),
     total |-> Cardinality(DOMAIN ts),
     verdict |-> Verdict(ts)]

NoReport == [completed |-> <<>>, failed |-> <<>>, total |-> 0, verdict |-> "none"]

\* Cleared without the clear()
Cleared_Kept(ts) == ts

\* the registry create_todo_list fills: self.tasks.clear(), self.task_order.clear()
Cleared(ts) == <<>>

\* what the methods return, by the leading words of the text
ParseError == "Error: JSON parsing failed"
CreateError == "Error: Failed to create task list"
NotExists == "Error: Task does not exist"
IsError(text) == text \in {ParseError, CreateError, NotExists}

\* create_todo_list(tasks_json) on the registry (ts, order): the registry it
\* leaves and the text it returns.  tasks_json is given by whether json.loads
\* parses it, and by the structure it parses to.
CreateTodoListOn(ts, order, tasks_json) ==
    IF ~tasks_json.parses
    THEN [tasks |-> ts, task_order |-> order, ret |-> ParseError]
    ELSE LET r == CreateLoop(tasks_json.data, Cleared(ts), Cleared(order))
         IN [tasks |-> r.tasks, task_order |-> r.task_order,
             ret |-> IF r.raised THEN CreateError ELSE "Todo list"]

MarkTaskInProgressReturn(ts, task_id) ==
    IF task_id \notin DOMAIN ts THEN NotExists ELSE "Task has started execution"

MarkTaskCompleteReturn(ts, task_id) ==
    IF task_id \notin DOMAIN ts THEN NotExists ELSE "Task completed"

MarkTaskFailedReturn(ts, task_id) ==
    IF task_id \notin DOMAIN ts THEN NotExists
    ELSE IF ts[task_id].retry_count + 1 >= ts[task_id].max_retries
    THEN "Task has reached maximum retry attempts"
    ELSE "Task execution failed, preparing retry attempt"

\* get_task_status: the status is the part of the text that is modelled
GetTaskStatus(ts, task_id) ==
    IF task_id \notin DOMAIN ts THEN NotExists ELSE ts[task_id].status

\* get_next_task returns None
NoTask == "None"

\* NextTaskReady that waits for a dependency that is not in the registry
NextTaskReady_UnknownBlocks(ts, task_id) ==
    /\ ts[task_id].status = PENDING
    /\ \A i \in 1..Len(ts[task_id].dependencies) :
          /\ ts[task_id].dependencies[i] \in DOMAIN ts
          /\ ts[ts[task_id].dependencies[i]].status = COMPLETED

\* the test get_next_task makes for one entry of task_order: the task is
\* Pending and its dependency loop ends with deps_satisfied
NextTaskReady(ts, task_id) ==
    /\ ts[task_id].status = PENDING
    /\ \A i \in 1..Len(ts[task_id].dependencies) :
          \/ ts[task_id].dependencies[i] \notin DOMAIN ts
          \/ ts[ts[task_id].dependencies[i]].status = COMPLETED

\* the loop of get_next_task over task_order: it returns at the first entry
\* that passes the test, and None when the loop is exhausted
RECURSIVE GetNextTask(_, _)

GetNextTask(ts, order) ==
    IF order = <<>> THEN NoTask
    ELSE IF NextTaskReady(ts, Head(order)) THEN Head(order)
    ELSE GetNextTask(ts, Tail(order))

\* what get_next_pending_task reports when get_next_task returns None
NextPendingReport(ts) ==
    IF IsAllCompleted(ts) THEN "All tasks completed!"
    ELSE IF HasFailedTasks(ts) THEN "Some tasks could not be completed"
    ELSE "No executable tasks at the moment"

\* get_next_pending_task: the registry it leaves and the text it returns
GetNextPendingTask(ts, order) ==
    LET task_id == GetNextTask(ts, order)
    IN IF task_id # NoTask
       THEN [tasks |-> MarkTaskInProgress(ts, task_id),
             ret |-> [next |-> task_id, retry_count |-> ts[task_id].retry_count,
                      text |-> "Next Task"]]
       ELSE [tasks |-> ts,
             ret |-> [next |-> NoTask, retry_count |-> 0, text |-> NextPendingReport(ts)]]

\* _format_todo_list on an empty registry
EmptyList == "Task list is empty"

\* the content of the text of get_todo_list: one line for each entry of
\* task_order, and the progress counted over the tasks
GetTodoList(ts, order) ==
    IF DOMAIN ts = {} THEN EmptyList
    ELSE [lines |-> [i \in 1..Len(order) |->
                        [id |-> order[i],
                         status |-> ts[order[i]].status,
                         dependencies |-> ts[order[i]].dependencies,
                         retry_count |-> ts[order[i]].retry_count]],
          completed |-> Cardinality({id \in DOMAIN ts : ts[id].status = COMPLETED}),
          total |-> Cardinality(DOMAIN ts)]

\* Queried that takes the next task into progress
Queried_Started(ts, order) ==
    [tasks |-> MarkTaskInProgress(ts, GetNextTask(ts, order)), task_order |-> order]

\* the registry after get_all_ready_tasks, get_next_task, get_todo_list,
\* is_all_completed, has_failed_tasks or get_final_summary: the methods read
\* self.tasks and self.task_order and assign to neither
Queried(ts, order) == [tasks |-> ts, task_order |-> order]

\* before any call
NoCall == [op |-> "none", arg |-> "none", ret |-> "none", replaced |-> {}]

-----------------------------------------------------------------------------
(* SharedMessageBoard *)

\* message[:500]
MsgLimit == 500

\* worker_id = f"Worker-{task.id}"
WorkerId(id) == "Worker-" \o id

Workers == {WorkerId(id) : id \in Ids}

\* exclude_worker=None
NoWorker == "None"

\* no coroutine holds the lock
NoOwner == "none"

\* a text is its identity (the number of the post call that carries it) and
\* its length
NoText == [tag |-> 0, len |-> 0]
TextLens == {0, MsgLimit + 1}

\* message[:500]
Truncate(text) == [text EXCEPT !.len = IF @ > MsgLimit THEN MsgLimit ELSE @]

\* the record post appends; the timestamp is left out
Message(worker_id, task_desc, message, status) ==
    [worker_id |-> worker_id, task |-> task_desc, message |-> Truncate(message),
     status |-> status]

NoMessage == [worker_id |-> "none", task |-> "none", message |-> NoText, status |-> "none"]

\* the filter of post that keeps every message
Keep_Everything(m, worker_id) == TRUE

\* the filter of post that drops every message of the worker
Keep_OthersOnly(m, worker_id) == m.worker_id # worker_id

\* the filter of post: not (m["worker_id"] == worker_id and m["status"] != "completed")
Keep(m, worker_id) == ~(m.worker_id = worker_id /\ m.status # "completed")

\* the list comprehension of post
Pruned(msgs, worker_id) == SelectSeq(msgs, LAMBDA m : Keep(m, worker_id))

\* the filter of get_updates with == for !=
Others_Own(m, exclude_worker) == m.worker_id = exclude_worker

\* the filter of get_updates: m["worker_id"] != exclude_worker
Others(m, exclude_worker) == m.worker_id # exclude_worker

NoUpdates == [text |-> "No updates from other workers yet.", entries |-> <<>>]

\* get_updates on the list it reads under the lock: the sentinel, or the
\* header and one entry per message
GetUpdates(msgs, exclude_worker) ==
    LET sel == SelectSeq(msgs, LAMBDA m : Others(m, exclude_worker))
    IN IF sel = <<>> THEN NoUpdates
       ELSE [text |-> "=== Other Workers' Progress ===",
             entries |-> [i \in 1..Len(sel) |->
                             [icon |-> IF sel[i].status = "completed" THEN "done" ELSE "busy",
                              worker_id |-> sel[i].worker_id,
                              task |-> sel[i].task,
                              result |-> sel[i].message]]]

NoReturn == [text |-> "none", entries |-> <<>>]

NoArgs == [task |-> "none", message |-> NoText, status |-> "none", kept |-> <<>>]

\* asyncio.Lock with acquire that never waits
LockFree_Always(l) == TRUE

\* asyncio.Lock.acquire does not wait
LockFree(l) == l = NoOwner

-----------------------------------------------------------------------------
(* execute_all_tasks_parallel *)

\* Waves with the range one too long
Waves_OneMore == 1..(max_waves + 1)

\* Waves with the range one too short
Waves_OneFewer == 1..(max_waves - 1)

\* range(1, max_waves + 1)
Waves == 1..max_waves

\* CanAcquire that admits at zero free slots
CanAcquire_AtZero(s) == s >= 0

\* asyncio.Semaphore.acquire does not block
CanAcquire(s) == s > 0

\* the diagnosis logged when the ready set is empty
Diagnosis(ts) ==
    IF IsAllCompleted(ts) THEN "all_completed"
    ELSE IF HasFailedTasks(ts) THEN "some_failed"
    ELSE "no_executable"

Init ==
    /\ tasks = <<>>
    /\ task_order = <<>>
    /\ pc = "idle"
    /\ max_concurrent = 0
    /\ wave = 0
    /\ ready_tasks = <<>>
    /\ idx = 0
    /\ inv = <<>>
    /\ results = <<>>
    /\ sem = 0
    /\ outcome = "none"
    /\ report = NoReport
    /\ dispatched = <<>>
    /\ n_waves = 0
    /\ posted = <<>>
    /\ prompt = <<>>
    /\ call = NoCall
    /\ n_calls = 0
    /\ messages = <<>>
    /\ lock = NoOwner
    /\ wpc = [w \in Workers |-> "idle"]
    /\ args = [w \in Workers |-> NoArgs]
    /\ ret = [w \in Workers |-> NoReturn]
    /\ n_posts = 0
    /\ last_post = [w \in Workers |-> NoMessage]

\* the locals of a run, before execute_all_tasks_parallel is entered
NoRun ==
    /\ max_concurrent' = 0
    /\ wave' = 0
    /\ ready_tasks' = <<>>
    /\ idx' = 0
    /\ inv' = <<>>
    /\ results' = <<>>
    /\ sem' = 0
    /\ outcome' = "none"
    /\ report' = NoReport
    /\ n_waves' = 0
    /\ prompt' = <<>>

\* create_todo_list on a well-formed list, on the registry as reset
CreateTodoList ==
    /\ pc = "idle"
    /\ \E tasks_data \in TaskLists :
          LET r == CreateLoop(tasks_data, <<>>, <<>>)
          IN /\ tasks' = r.tasks
             /\ task_order' = r.task_order
             /\ dispatched' = [id \in DOMAIN r.tasks |-> 0]
             /\ posted' = [id \in DOMAIN r.tasks |-> 0]
    /\ pc' = "planned"
    /\ NoRun
    /\ UNCHANGED <<apiVars, boardVars>>

\* task_manager.reset(), between runs
Reset ==
    /\ pc \in {"done", "crashed"}
    /\ tasks' = <<>>
    /\ task_order' = <<>>
    /\ dispatched' = <<>>
    /\ posted' = <<>>
    /\ pc' = "idle"
    /\ NoRun
    /\ UNCHANGED <<apiVars, boardVars>>

\* return task_manager.get_final_summary()
Return ==
    /\ pc' = "done"
    /\ report' = GetFinalSummary(tasks, task_order)

\* execute_all_tasks_parallel is called: the for loop is entered
StartRun ==
    /\ pc = "planned"
    /\ \E mc \in 0..MaxConcurrent : max_concurrent' = mc
    /\ IF 1 \in Waves
       THEN /\ wave' = 1
            /\ pc' = "wave"
            /\ report' = report
       ELSE /\ wave' = wave
            /\ Return
    /\ UNCHANGED <<tasks, task_order, ready_tasks, idx, inv, results, sem,
                   outcome, dispatched, n_waves, posted, prompt>>
    /\ UNCHANGED <<apiVars, boardVars>>

\* top of the loop body: the ready set, and the break when it is empty
WaveStart ==
    /\ pc = "wave"
    /\ LET ready == GetAllReadyTasks(tasks, task_order)
       IN IF ready = <<>>
          THEN /\ outcome' = Diagnosis(tasks)
               /\ Return
               /\ UNCHANGED <<ready_tasks, idx, n_waves>>
          ELSE /\ ready_tasks' = ready
               /\ idx' = 1
               /\ pc' = "mark"
               /\ n_waves' = n_waves + 1
               /\ UNCHANGED <<outcome, report>>
    /\ UNCHANGED <<tasks, task_order, max_concurrent, wave, inv, results, sem,
                   dispatched, posted, prompt>>
    /\ UNCHANGED <<apiVars, boardVars>>

\* one iteration of: for t in ready_tasks: mark_task_in_progress(t.id)
MarkReady ==
    /\ pc = "mark"
    /\ idx <= Len(ready_tasks)
    /\ tasks' = MarkTaskInProgress(tasks, ready_tasks[idx])
    /\ idx' = idx + 1
    /\ UNCHANGED <<task_order, pc, max_concurrent, wave, ready_tasks, inv, results,
                   sem, outcome, report, dispatched, n_waves, posted, prompt>>
    /\ UNCHANGED <<apiVars, boardVars>>

\* Invocations that leaves to a later wave the tasks beyond max_concurrent
Invocations_FirstSlots(ready) ==
    [i \in 1..(IF Len(ready) < max_concurrent THEN Len(ready) ELSE max_concurrent)
        |-> "waiting"]

\* [_run_one(t) for t in ready_tasks]: one coroutine for every task of the wave
Invocations(ready) == [i \in 1..Len(ready) |-> "waiting"]

\* the prompt of an invocation that has not built it yet
NoPrompt == [retry |-> FALSE, attempt |-> 0, failures |-> <<>>]

\* RetryInfo that gives the last failure only
RetryInfo_LastOnly(task) ==
    IF task.retry_count > 0
    THEN [retry |-> TRUE, attempt |-> task.retry_count,
          failures |-> <<task.failure_history[Len(task.failure_history)]>>]
    ELSE NoPrompt

\* the part of the prompt added for a retry: "This is retry attempt
\* {retry_count}. Previous failures:" and one line for each entry of
\* task.failure_history, in its order; nothing when retry_count is 0
RetryInfo(task) ==
    IF task.retry_count > 0
    THEN [retry |-> TRUE, attempt |-> task.retry_count, failures |-> task.failure_history]
    ELSE NoPrompt

\* the semaphore and the _run_one coroutines handed to asyncio.gather
Dispatch ==
    /\ pc = "mark"
    /\ idx > Len(ready_tasks)
    /\ sem' = max_concurrent
    /\ inv' = Invocations(ready_tasks)
    /\ results' = [i \in 1..Len(ready_tasks) |-> NoResult]
    /\ prompt' = [i \in 1..Len(ready_tasks) |-> NoPrompt]
    /\ dispatched' = [id \in DOMAIN dispatched |->
                        dispatched[id]
                        + Cardinality({i \in 1..Len(ready_tasks) : ready_tasks[i] = id})]
    /\ pc' = "gather"
    /\ UNCHANGED <<tasks, task_order, max_concurrent, wave, ready_tasks, idx,
                   outcome, report, n_waves, posted>>
    /\ UNCHANGED <<apiVars, boardVars>>

\* _run_one: async with sem, entered; _execute_worker_with_board builds the
\* prompt of the invocation from its task
Acquire(i) ==
    /\ pc = "gather"
    /\ inv[i] = "waiting"
    /\ CanAcquire(sem)
    /\ sem' = sem - 1
    /\ inv' = [inv EXCEPT ![i] = "running"]
    /\ prompt' = [prompt EXCEPT ![i] = RetryInfo(tasks[ready_tasks[i]])]
    /\ UNCHANGED <<tasks, task_order, pc, max_concurrent, wave, ready_tasks, idx,
                   results, outcome, report, dispatched, n_waves, posted>>
    /\ UNCHANGED <<apiVars, boardVars>>

\* the "completed" messages one attempt posts to the board: the worker posts
\* its output as soon as the agent returns it, before it looks for FAILED: or
\* ERROR: in it; an attempt that raises posts nothing
PostsOfAttempt(kind) == IF kind \in {"ok", "fail"} THEN 1 ELSE 0

\* how an invocation ends: it returns (True, output), it returns
\* (False, output), it raises an Exception, or it raises a BaseException that
\* is not an Exception (asyncio.CancelledError); gather returns what is raised
Outcomes == {"ok", "fail", "raise", "cancel"}

\* _run_one: _execute_worker_with_board returns (success, output) or raises;
\* the semaphore is released
WorkerEnds(i) ==
    /\ pc = "gather"
    /\ inv[i] = "running"
    /\ \E kind \in Outcomes :
          /\ kind \in {"raise", "cancel"} => wave \in FaultWaves
          /\ results' = [results EXCEPT ![i] = [kind |-> kind, wave |-> wave, slot |-> i]]
          /\ posted' = [posted EXCEPT ![ready_tasks[i]] = @ + PostsOfAttempt(kind)]
    /\ sem' = sem + 1
    /\ inv' = [inv EXCEPT ![i] = "done"]
    /\ UNCHANGED <<tasks, task_order, pc, max_concurrent, wave, ready_tasks, idx,
                   outcome, report, dispatched, n_waves, prompt>>
    /\ UNCHANGED <<apiVars, boardVars>>

\* AllDone that is satisfied by the first invocation that ends
AllDone_First(invs) == \E i \in 1..Len(invs) : invs[i] = "done"

\* await asyncio.gather(...): every coroutine handed to it has ended
AllDone(invs) == \A i \in 1..Len(invs) : invs[i] = "done"

\* asyncio.gather returns once every coroutine of the wave has ended
GatherReturns ==
    /\ pc = "gather"
    /\ AllDone(inv)
    /\ pc' = "apply"
    /\ idx' = 1
    /\ UNCHANGED <<tasks, task_order, max_concurrent, wave, ready_tasks, inv,
                   results, sem, outcome, report, dispatched, n_waves, posted, prompt>>
    /\ UNCHANGED <<apiVars, boardVars>>

\* the registry after one iteration of: for i, result in enumerate(results)
Applied(ts, task_id, result) ==
    IF result.kind = "ok" THEN MarkTaskComplete(ts, task_id, result)
    ELSE MarkTaskFailed(ts, task_id, result)

\* isinstance(result, Exception)
IsException(result) == result.kind = "raise"

\* task_id, success, output = result: what is not a tuple does not unpack
Unpacks(result) == result.kind \in {"ok", "fail"}

\* one iteration of the result loop; a result that is neither an Exception nor
\* a tuple makes the unpacking raise TypeError, which ends
\* execute_all_tasks_parallel without a report
ApplyResult ==
    /\ pc = "apply"
    /\ idx <= Len(results)
    /\ IF IsException(results[idx]) \/ Unpacks(results[idx])
       THEN /\ tasks' = Applied(tasks, ready_tasks[idx], results[idx])
            /\ idx' = idx + 1
            /\ pc' = pc
       ELSE /\ pc' = "crashed"
            /\ UNCHANGED <<tasks, idx>>
    /\ UNCHANGED <<task_order, max_concurrent, wave, ready_tasks, inv, results,
                   sem, outcome, report, dispatched, n_waves, posted, prompt>>
    /\ UNCHANGED <<apiVars, boardVars>>

\* the loop goes to its next wave, or is exhausted and the report is returned
NextWave ==
    /\ pc = "apply"
    /\ idx > Len(results)
    /\ IF wave + 1 \in Waves
       THEN /\ wave' = wave + 1
            /\ pc' = "wave"
            /\ report' = report
       ELSE /\ wave' = wave
            /\ Return
    /\ UNCHANGED <<tasks, task_order, max_concurrent, ready_tasks, idx, inv,
                   results, sem, outcome, dispatched, n_waves, posted, prompt>>
    /\ UNCHANGED <<apiVars, boardVars>>

Next ==
    \/ CreateTodoList
    \/ Reset
    \/ StartRun
    \/ WaveStart
    \/ MarkReady
    \/ Dispatch
    \/ \E i \in 1..Len(inv) : Acquire(i)
    \/ \E i \in 1..Len(inv) : WorkerEnds(i)
    \/ GatherReturns
    \/ ApplyResult
    \/ NextWave

Spec == Init /\ [][Next]_vars

-----------------------------------------------------------------------------
(* The TaskManager methods, called in any order *)

\* records of the inputs of the calls
ApiData ==
    {[id |-> "1", dependencies |-> <<>>],
     [id |-> "2", dependencies |-> <<"1">>],
     [id |-> NoId, dependencies |-> <<"9">>],
     Malformed}

\* a record with the id 2 and two records with neither id nor dependencies
Defaulted ==
    <<[id |-> "2", dependencies |-> <<"9">>], [id |-> NoId], [id |-> NoId]>>

\* three records with neither id nor dependencies
Unnamed == <<[id |-> NoId], [id |-> NoId], [id |-> NoId]>>

\* the tasks_json texts: the lists of at most two elements, two lists of three
\* records without id, and a text that json.loads does not parse
ApiInputs ==
    {[parses |-> TRUE, data |-> d] :
        d \in {<<>>} \cup {<<a>> : a \in ApiData} \cup {<<a, b>> : a, b \in ApiData}
              \cup {Defaulted, Unnamed}}
    \cup {[parses |-> FALSE, data |-> <<>>]}

\* the task ids of the calls; "9" names no task
CallIds == Ids \cup {"9"}

\* the tasks of the registry that a call found marked (not as create_todo_list
\* makes them), with the status and the retry_count it found
Marked(ts) ==
    {[id |-> id, status |-> ts[id].status, retry_count |-> ts[id].retry_count] :
        id \in {i \in DOMAIN ts : ts[i] # Task(i, ts[i].dependencies)}}

\* the result or the failure reason a call carries
Stamp(kind, n) == [kind |-> kind, wave |-> 0, slot |-> n]

\* the frame of a call
Called(op, arg, text) ==
    /\ pc = "idle"
    /\ call' = [op |-> op, arg |-> arg, ret |-> text, replaced |-> Marked(tasks)]
    /\ UNCHANGED <<runVars, boardVars>>

ApiCreateTodoList ==
    \E tasks_json \in ApiInputs :
        LET r == CreateTodoListOn(tasks, task_order, tasks_json)
        IN /\ tasks' = r.tasks
           /\ task_order' = r.task_order
           /\ n_calls' = IF tasks_json.parses THEN 0 ELSE n_calls
           /\ Called("create_todo_list", tasks_json, r.ret)

ApiReset ==
    /\ tasks # <<>>
    /\ tasks' = <<>>
    /\ task_order' = <<>>
    /\ n_calls' = 0
    /\ Called("reset", "none", "none")

ApiMarkTaskInProgress ==
    \E task_id \in CallIds :
        /\ n_calls < MaxCalls
        /\ tasks' = MarkTaskInProgress(tasks, task_id)
        /\ n_calls' = n_calls + 1
        /\ Called("mark_task_in_progress", task_id, MarkTaskInProgressReturn(tasks, task_id))
        /\ UNCHANGED task_order

ApiMarkTaskComplete ==
    \E task_id \in CallIds :
        /\ n_calls < MaxCalls
        /\ tasks' = MarkTaskComplete(tasks, task_id, Stamp("ok", n_calls + 1))
        /\ n_calls' = n_calls + 1
        /\ Called("mark_task_complete", task_id, MarkTaskCompleteReturn(tasks, task_id))
        /\ UNCHANGED task_order

ApiMarkTaskFailed ==
    \E task_id \in CallIds :
        /\ n_calls < MaxCalls
        /\ tasks' = MarkTaskFailed(tasks, task_id, Stamp("fail", n_calls + 1))
        /\ n_calls' = n_calls + 1
        /\ Called("mark_task_failed", task_id, MarkTaskFailedReturn(tasks, task_id))
        /\ UNCHANGED task_order

ApiGetTaskStatus ==
    \E task_id \in CallIds :
        /\ Called("get_task_status", task_id, GetTaskStatus(tasks, task_id))
        /\ UNCHANGED <<tasks, task_order, n_calls>>

ApiGetAllReadyTasks ==
    /\ tasks' = Queried(tasks, task_order).tasks
    /\ task_order' = Queried(tasks, task_order).task_order
    /\ Called("get_all_ready_tasks", "none", GetAllReadyTasks(tasks, task_order))
    /\ UNCHANGED n_calls

ApiGetNextTask ==
    /\ tasks' = Queried(tasks, task_order).tasks
    /\ task_order' = Queried(tasks, task_order).task_order
    /\ Called("get_next_task", "none", GetNextTask(tasks, task_order))
    /\ UNCHANGED n_calls

ApiGetTodoList ==
    /\ tasks' = Queried(tasks, task_order).tasks
    /\ task_order' = Queried(tasks, task_order).task_order
    /\ Called("get_todo_list", "none", GetTodoList(tasks, task_order))
    /\ UNCHANGED n_calls

ApiIsAllCompleted ==
    /\ tasks' = Queried(tasks, task_order).tasks
    /\ task_order' = Queried(tasks, task_order).task_order
    /\ Called("is_all_completed", "none", IsAllCompleted(tasks))
    /\ UNCHANGED n_calls

ApiHasFailedTasks ==
    /\ tasks' = Queried(tasks, task_order).tasks
    /\ task_order' = Queried(tasks, task_order).task_order
    /\ Called("has_failed_tasks", "none", HasFailedTasks(tasks))
    /\ UNCHANGED n_calls

ApiGetFinalSummary ==
    /\ tasks' = Queried(tasks, task_order).tasks
    /\ task_order' = Queried(tasks, task_order).task_order
    /\ Called("get_final_summary", "none", GetFinalSummary(tasks, task_order))
    /\ UNCHANGED n_calls

ApiGetNextPendingTask ==
    /\ tasks' = GetNextPendingTask(tasks, task_order).tasks
    /\ Called("get_next_pending_task", "none", GetNextPendingTask(tasks, task_order).ret)
    /\ UNCHANGED <<task_order, n_calls>>

NextAPI ==
    \/ ApiCreateTodoList
    \/ ApiReset
    \/ ApiMarkTaskInProgress
    \/ ApiMarkTaskComplete
    \/ ApiMarkTaskFailed
    \/ ApiGetTaskStatus
    \/ ApiGetAllReadyTasks
    \/ ApiGetNextTask
    \/ ApiGetTodoList
    \/ ApiIsAllCompleted
    \/ ApiHasFailedTasks
    \/ ApiGetFinalSummary
    \/ ApiGetNextPendingTask

SpecAPI == Init /\ [][NextAPI]_vars

-----------------------------------------------------------------------------
(* The workers of a run on its SharedMessageBoard *)

\* the frame of a step of a worker on the board
OnBoard == UNCHANGED <<regVars, runVars, apiVars>>

\* post is called: by report_progress with status in_progress, by
\* _execute_worker_with_board with status completed
PostCall(id) ==
    LET w == WorkerId(id)
    IN /\ wpc[w] = "idle"
       /\ n_posts < MaxPosts
       /\ n_posts' = n_posts + 1
       /\ \E status \in {"in_progress", "completed"}, len \in TextLens :
             args' = [args EXCEPT ![w] = [task |-> id,
                                          message |-> [tag |-> n_posts + 1, len |-> len],
                                          status |-> status,
                                          kept |-> <<>>]]
       /\ wpc' = [wpc EXCEPT ![w] = "post_wait"]
       /\ ret' = [ret EXCEPT ![w] = NoReturn]
       /\ UNCHANGED <<messages, lock, last_post>>
       /\ OnBoard

\* post: async with self._lock, entered
PostLock(w) ==
    /\ wpc[w] = "post_wait"
    /\ LockFree(lock)
    /\ lock' = w
    /\ wpc' = [wpc EXCEPT ![w] = "post_locked"]
    /\ UNCHANGED <<messages, args, ret, n_posts, last_post>>
    /\ OnBoard

\* post: the list comprehension is evaluated
PostFilter(w) ==
    /\ wpc[w] = "post_locked"
    /\ args' = [args EXCEPT ![w].kept = Pruned(messages, w)]
    /\ wpc' = [wpc EXCEPT ![w] = "post_filtered"]
    /\ UNCHANGED <<messages, lock, ret, n_posts, last_post>>
    /\ OnBoard

\* post: self._messages is bound to the new list
PostAssign(w) ==
    /\ wpc[w] = "post_filtered"
    /\ messages' = args[w].kept
    /\ wpc' = [wpc EXCEPT ![w] = "post_assigned"]
    /\ UNCHANGED <<lock, args, ret, n_posts, last_post>>
    /\ OnBoard

\* post: the message is appended, the lock is released and post returns
PostAppend(w) ==
    /\ wpc[w] = "post_assigned"
    /\ LET m == Message(w, args[w].task, args[w].message, args[w].status)
       IN /\ messages' = Append(messages, m)
          /\ last_post' = [last_post EXCEPT ![w] = m]
    /\ lock' = NoOwner
    /\ args' = [args EXCEPT ![w] = NoArgs]
    /\ wpc' = [wpc EXCEPT ![w] = "idle"]
    /\ UNCHANGED <<ret, n_posts>>
    /\ OnBoard

\* check_other_workers_progress: get_updates(exclude_worker=worker_id) is called
GetCall(w) ==
    /\ wpc[w] = "idle"
    /\ ret' = [ret EXCEPT ![w] = NoReturn]
    /\ wpc' = [wpc EXCEPT ![w] = "get_wait"]
    /\ UNCHANGED <<messages, lock, args, n_posts, last_post>>
    /\ OnBoard

\* get_updates: async with self._lock, entered
GetLock(w) ==
    /\ wpc[w] = "get_wait"
    /\ LockFree(lock)
    /\ lock' = w
    /\ wpc' = [wpc EXCEPT ![w] = "get_locked"]
    /\ UNCHANGED <<messages, args, ret, n_posts, last_post>>
    /\ OnBoard

\* get_updates: the list is read, the lock is released, the text is returned
GetCopy(w) ==
    /\ wpc[w] = "get_locked"
    /\ ret' = [ret EXCEPT ![w] = GetUpdates(messages, w)]
    /\ lock' = NoOwner
    /\ wpc' = [wpc EXCEPT ![w] = "idle"]
    /\ UNCHANGED <<messages, args, n_posts, last_post>>
    /\ OnBoard

NextBoard ==
    \/ \E id \in Ids : PostCall(id)
    \/ \E w \in Workers : PostLock(w)
    \/ \E w \in Workers : PostFilter(w)
    \/ \E w \in Workers : PostAssign(w)
    \/ \E w \in Workers : PostAppend(w)
    \/ \E w \in Workers : GetCall(w)
    \/ \E w \in Workers : GetLock(w)
    \/ \E w \in Workers : GetCopy(w)

SpecBoard == Init /\ [][NextBoard]_vars

-----------------------------------------------------------------------------
(* Vocabulary of the properties *)

Registered == DOMAIN tasks

\* d is one of the dependency ids of task id
DependsOn(id, d) ==
    \E k \in 1..Len(tasks[id].dependencies) : tasks[id].dependencies[k] = d

\* the registered dependencies of task id
RegisteredDeps(id) == {d \in Registered : DependsOn(id, d)}

\* status Pending and every dependency absent from the registry or Completed
Eligible(id) ==
    /\ tasks[id].status = PENDING
    /\ \A d \in RegisteredDeps(id) : tasks[d].status = COMPLETED

\* the invocations of the wave that hold a slot of the semaphore
Running == {i \in 1..Len(inv) : inv[i] = "running"}

Waiting == {i \in 1..Len(inv) : inv[i] = "waiting"}

\* the run has ended because the loop ran out of waves
StoppedAtCap == pc = "done" /\ outcome = "none"

\* a and b depend on each other (a = b: a depends on itself)
Mutual(a, b) == DependsOn(a, b) /\ DependsOn(b, a)

InCycle(a) == \E b \in Registered : Mutual(a, b)

-----------------------------------------------------------------------------
(* Properties *)

\* the step is the marking loop's call of mark_task_in_progress for task id
MarksRunning(id) ==
    /\ pc = "mark"
    /\ idx <= Len(ready_tasks)
    /\ ready_tasks[idx] = id
    /\ idx' = idx + 1

\* C1: in a run, a step that marks a task Running, or that turns its status
\* to Running, finds every dependency of the task that is registered with
\* status Completed, and leaves it Completed.
C1_StartsAfterDependencies ==
    [][\A id \in Registered :
          (/\ id \in DOMAIN tasks'
           /\ tasks'[id].status = IN_PROGRESS
           /\ tasks[id].status # IN_PROGRESS \/ MarksRunning(id))
          => \A d \in RegisteredDeps(id) :
                tasks[d].status = COMPLETED /\ tasks'[d].status = COMPLETED]_vars

\* C1, its case: a task runs whose registered dependency completed after a retry
C1_Witness ==
    \E id \in Registered :
        /\ tasks[id].status = IN_PROGRESS
        /\ \E d \in RegisteredDeps(id) :
              tasks[d].status = COMPLETED /\ tasks[d].retry_count > 0

\* C2: get_all_ready_tasks returns exactly the eligible tasks, in insertion
\* order, each task once.
C2_ReadySetExact ==
    LET r == GetAllReadyTasks(tasks, task_order)
    IN /\ \A id \in Registered : Eligible(id) <=> \E i \in 1..Len(r) : r[i] = id
       /\ \A i \in 1..Len(r) : r[i] \in Registered
       /\ \A i, j \in 1..Len(r) : i < j => r[i] # r[j]
       /\ \A i, j \in 1..Len(r) : i < j =>
             \E p, q \in 1..Len(task_order) :
                p < q /\ task_order[p] = r[i] /\ task_order[q] = r[j]

\* C3: every task has retry_count <= max_retries, in every state of a run.
C3_RetryBound ==
    \A id \in Registered : tasks[id].retry_count <= tasks[id].max_retries

\* C4: a task whose retry_count equals max_retries is Failed, is not in the
\* ready set and is not dispatched again.
C4_ExhaustedIsFailed ==
    /\ [](\A id \in Registered :
            tasks[id].retry_count = tasks[id].max_retries
            => /\ tasks[id].status = FAILED
               /\ \A i \in 1..Len(GetAllReadyTasks(tasks, task_order)) :
                     GetAllReadyTasks(tasks, task_order)[i] # id)
    /\ [][\A id \in Registered :
             (id \in DOMAIN dispatched' /\ tasks[id].retry_count = tasks[id].max_retries)
             => dispatched'[id] <= dispatched[id]]_vars

\* C5: no step of a run changes the status of a task that is Completed or
\* Failed; only the replacement or the reset of the list removes the task.
C5_TerminalStatuses ==
    [][\A id \in Registered :
          tasks[id].status \in {COMPLETED, FAILED}
          => \/ pc' = "idle"
             \/ id \in DOMAIN tasks' /\ tasks'[id].status = tasks[id].status]_vars

\* C6: the invocations that have passed the semaphore and not yet returned
\* are never more than max_concurrent.
C6_ConcurrencyBound == Cardinality(Running) <= max_concurrent

\* C6, its case: every slot is taken and a ready task waits for one
C6_Witness ==
    /\ pc = "gather"
    /\ max_concurrent >= 1
    /\ Cardinality(Running) = max_concurrent
    /\ Waiting # {}

\* C7: a wave that starts with an empty ready set ends the run, with the
\* diagnosis all-completed iff every task is Completed, some-failed iff not
\* all are Completed and a task is Failed, no-executable (deadlock) iff neither.
C7_EmptyReadySetEndsRun ==
    [][(pc = "wave" /\ \A id \in Registered : ~Eligible(id))
       => LET all == \A id \in Registered : tasks[id].status = COMPLETED
              some == \E id \in Registered : tasks[id].status = FAILED
          IN /\ pc' = "done"
             /\ tasks' = tasks
             /\ outcome' \in {"all_completed", "some_failed", "no_executable"}
             /\ outcome' = "all_completed" <=> all
             /\ outcome' = "some_failed" <=> (~all /\ some)
             /\ outcome' = "no_executable" <=> (~all /\ ~some)]_vars

\* C7, its case: the run ended on an empty ready set with a task Completed,
\* a task Failed and a task still Pending
C7_Witness ==
    /\ pc = "done"
    /\ outcome = "some_failed"
    /\ \E a, b, c \in Registered :
          /\ tasks[a].status = COMPLETED
          /\ tasks[b].status = FAILED
          /\ tasks[c].status = PENDING

\* C8: tasks that depend on each other, or on themselves, stay Pending and
\* are never dispatched; a run of only such tasks ends in its first wave
\* with the no-executable (deadlock) diagnosis, never with success.
C8_CycleNeverRuns ==
    /\ \A a \in Registered :
          InCycle(a) => /\ tasks[a].status = PENDING
                        /\ dispatched[a] = 0
                        /\ \A i \in 1..Len(ready_tasks) : ready_tasks[i] # a
    /\ (Registered # {} /\ \A a \in Registered : InCycle(a))
       => /\ n_waves = 0
          /\ outcome \in {"none", "no_executable"}
          /\ pc \in {"planned", "wave", "done"}
          /\ pc = "done" => /\ outcome = "no_executable"
                            /\ wave = 1
                            /\ report.verdict # "All tasks completed successfully!"

\* C8, its case: a run of two tasks that depend on each other has ended
C8_Witness ==
    /\ pc = "done"
    /\ \E a, b \in Registered : a # b /\ Mutual(a, b)
    /\ \A a \in Registered : InCycle(a)

\* C9: a run dispatches at most max_waves waves, and after the last of them
\* it never returns to the top of the loop.
C9_WaveCap ==
    /\ n_waves <= max_waves
    /\ n_waves = max_waves => pc \in {"mark", "gather", "apply", "done"}

\* C9, its case: the run stopped after max_waves waves with a task still Pending
C9_Witness ==
    /\ pc = "done"
    /\ n_waves = max_waves
    /\ \E id \in Registered : tasks[id].status = PENDING

\* the verdict reported when the run ends in deadlock: the verdict of a
\* registry whose one task depends on itself
DeadlockVerdict == Verdict(("1" :> Task("1", <<"1">>)))

\* the verdict reported when the run ends with every task Completed
SuccessVerdict ==
    Verdict(("1" :> [Task("1", <<>>) EXCEPT !.status = COMPLETED]))

\* C10: a run that stops at the wave cap with tasks not Completed and none
\* Failed reports an outcome that differs from the deadlock outcome and from
\* the success outcome.
C10_CapReportedDistinctly ==
    (/\ StoppedAtCap
     /\ \E id \in Registered : tasks[id].status # COMPLETED
     /\ \A id \in Registered : tasks[id].status # FAILED)
    => report.verdict \notin {DeadlockVerdict, SuccessVerdict}

\* C11: a task that is Failed for good does not stop the run.  At the top of a
\* wave, if some task is Failed and some task is Pending with every
\* registered dependency Completed, the step does not end the run: it puts
\* every such task in the ready set of the wave, whose tasks are all
\* dispatched.  And a run that has ended before the wave cap has left no such
\* task behind.
C11_FailureDoesNotStopRun ==
    /\ [][(/\ pc = "wave"
           /\ HasFailedTasks(tasks)
           /\ \E id \in Registered : Eligible(id))
          => /\ pc' = "mark"
             /\ \A id \in Registered :
                   Eligible(id) => \E k \in 1..Len(ready_tasks') : ready_tasks'[k] = id]_vars
    /\ [](pc = "gather" => Len(inv) = Len(ready_tasks))
    /\ []((pc = "done" /\ ~StoppedAtCap) => \A id \in Registered : ~Eligible(id))

\* a wave runs a task while another task, listed once, is Failed for good
\* after three attempts
C11_Witness ==
    /\ pc = "gather"
    /\ \E a, b \in Registered :
          /\ tasks[a].status = FAILED
          /\ tasks[a].retry_count = max_retries
          /\ dispatched[a] = max_retries
          /\ \E i \in Running : ready_tasks[i] = b

-----------------------------------------------------------------------------
(* Properties of the SharedMessageBoard *)

\* the positions of the board that hold a message of worker w that is not completed
InProgressOf(w) ==
    {i \in 1..Len(messages) : messages[i].worker_id = w /\ messages[i].status # "completed"}

\* every call of post and of get_updates has returned
AllReturned == \A w \in Workers : wpc[w] = "idle"

\* C12: whatever post calls the workers have made and however they were
\* interleaved, the board holds for each worker id at most one message whose
\* status is not completed.
C12_OneInProgressPerWorker ==
    \A w \in Workers : Cardinality(InProgressOf(w)) <= 1

\* two posts have returned and the board holds only the second one, an
\* in_progress message: the first, in_progress and of the same worker, is gone
C12_Witness ==
    /\ AllReturned
    /\ Len(messages) = 1
    /\ messages[1].status = "in_progress"
    /\ messages[1].message.tag = 2

\* the completed messages of a list, in their order
CompletedOf(msgs) == SelectSeq(msgs, LAMBDA m : m.status = "completed")

\* C13: no step of any worker -- a post of either status, by the same or by
\* another worker -- removes a completed message or changes the order of the
\* completed messages: those on the board before the step are, in the same
\* order, the first of those on the board after it.
C13_CompletedStays ==
    [][LET before == CompletedOf(messages)
           after == CompletedOf(messages')
       IN /\ Len(before) <= Len(after)
          /\ SubSeq(after, 1, Len(before)) = before]_vars

\* a worker's completed message is still on the board, first, after the two
\* later posts, of which the last is an in_progress post of the same worker
C13_Witness ==
    /\ AllReturned
    /\ n_posts = 3
    /\ Len(messages) >= 2
    /\ messages[1].status = "completed"
    /\ messages[1].message.tag = 1
    /\ messages[Len(messages)].status = "in_progress"
    /\ messages[Len(messages)].message.tag = 3
    /\ messages[Len(messages)].worker_id = messages[1].worker_id

-----------------------------------------------------------------------------
(* Properties of the workers of a run *)

\* the insertion order lists no id twice
ListedOnce ==
    \A i, j \in 1..Len(task_order) : task_order[i] = task_order[j] => i = j

\* C14: when a run on a list without repeated ids has ended, the worker of
\* each task that was dispatched in it has posted exactly one message with
\* status completed to the board of the run, whatever the number of attempts
\* and their outcomes.
C14_OneCompletedPostPerTask ==
    (pc = "done" /\ ListedOnce) =>
        \A id \in Registered : dispatched[id] > 0 => posted[id] = 1

-----------------------------------------------------------------------------
(* Properties of get_updates *)

\* the step is the return of get_updates(exclude_worker=w)
GetUpdatesReturns(w) == wpc[w] = "get_locked" /\ wpc'[w] = "idle"

\* C15: get_updates(exclude_worker=w) returns the no-updates sentinel exactly
\* when the board holds no message of another worker id; otherwise it reports
\* each message on the board whose worker id is not w, once and in the order
\* of the board, and no message whose worker id is w.
C15_UpdatesAreTheOthers ==
    [][\A w \in Workers :
         GetUpdatesReturns(w) =>
             LET others == {i \in 1..Len(messages) : messages[i].worker_id # w}
                 r == ret'[w]
             IN /\ (r = NoUpdates) <=> (others = {})
                /\ Len(r.entries) = Cardinality(others)
                /\ \A i \in others :
                      \E k \in 1..Len(r.entries) :
                          /\ r.entries[k].worker_id = messages[i].worker_id
                          /\ r.entries[k].task = messages[i].task
                          /\ r.entries[k].result = messages[i].message
                          /\ k = Cardinality({j \in others : j <= i})
                /\ \A k \in 1..Len(r.entries) : r.entries[k].worker_id # w]_vars

\* a worker with a message of its own on the board has read the board and got
\* a report, without its own message in it
C15_Witness ==
    \E w \in Workers :
        /\ wpc[w] = "idle"
        /\ ret[w] # NoReturn
        /\ ret[w] # NoUpdates
        /\ \E i \in 1..Len(messages) : messages[i] = last_post[w]
        /\ Len(ret[w].entries) >= 1

-----------------------------------------------------------------------------
(* Properties of the lock of the board *)

\* message m is on the board
Posted(m) == \E i \in 1..Len(messages) : messages[i] = m

\* worker v is inside post, between the binding of the pruned list and the
\* append of its new message
MidPost(v) == wpc[v] = "post_assigned"

\* the messages of worker w on a board
MessagesOf(msgs, w) == {msgs[i] : i \in {j \in 1..Len(msgs) : msgs[j].worker_id = w}}

\* C16: post is atomic for the other workers.  No message is lost: the message
\* of a worker's last post that returned is on the board until that worker
\* prunes it in its next post, and a step that is not a step of worker w
\* removes no message of w.  And no get_updates reads the board while another
\* worker is between the pruning of its old message and the append of its new
\* one.
C16_PostIsAtomic ==
    /\ [](\A w \in Workers :
            (last_post[w] # NoMessage /\ ~MidPost(w)) => Posted(last_post[w]))
    /\ [][\A w \in Workers :
            wpc'[w] = wpc[w] => MessagesOf(messages, w) \subseteq MessagesOf(messages', w)]_vars
    /\ [][\A r \in Workers :
            GetUpdatesReturns(r) => \A v \in Workers \ {r} : ~MidPost(v)]_vars

\* a worker has pruned its old in_progress message and has not yet appended
\* the new one, while another worker is waiting for the lock to read the board
\* and has a message of its own on it
C16_Witness ==
    \E r, v \in Workers :
        /\ r # v
        /\ wpc[r] = "get_wait"
        /\ MidPost(v)
        /\ last_post[v] # NoMessage
        /\ ~Posted(last_post[v])
        /\ Posted(last_post[r])

-----------------------------------------------------------------------------
(* Properties of the TaskManager methods called in any order *)

\* a task as create_todo_list makes it
Fresh(t) ==
    /\ t.status = PENDING
    /\ t.retry_count = 0
    /\ t.result = NoResult
    /\ t.failure_history = <<>>

\* the last call was create_todo_list and it returned no error
Created == call.op = "create_todo_list" /\ ~IsError(call.ret)

\* task t comes from the k-th record of the list: its id is the record's, or
\* a default id if the record has none, and its dependencies are the record's
FromRecord(t, data, k) ==
    /\ \/ data[k].id = t.id
       \/ data[k].id = NoId /\ t.id \in {ToString(n) : n \in 1..Len(data)}
    /\ Dependencies(data[k]) = t.dependencies

-----------------------------------------------------------------------------
(* Properties of create_todo_list *)

\* C18: whatever ids the records of the input repeat, the insertion order
\* lists each id of the registry exactly once, and the ready set of a wave and
\* the report hold each task at most once.
C18_OneEntryPerId ==
    /\ ListedOnce
    /\ \A id \in Registered : \E i \in 1..Len(task_order) : task_order[i] = id
    /\ \A i, j \in 1..Len(ready_tasks) : ready_tasks[i] = ready_tasks[j] => i = j
    /\ \A i, j \in 1..Len(report.completed) :
          report.completed[i] = report.completed[j] => i = j
    /\ \A i, j \in 1..Len(report.failed) : report.failed[i] = report.failed[j] => i = j

\* C19: a call of create_todo_list that returns an error -- for a text that
\* does not parse, or for a list with an element that is not a record --
\* leaves the tasks and the insertion order as they were before the call.
C19_FailedCreateChangesNothing ==
    [][(call'.op = "create_todo_list" /\ IsError(call'.ret))
          => (tasks' = tasks /\ task_order' = task_order)]_vars

-----------------------------------------------------------------------------
(* Properties of the calls with an unknown id *)

\* the methods that take a task id
IdOps == {"mark_task_in_progress", "mark_task_complete", "mark_task_failed",
          "get_task_status"}

\* C20: a call of mark_task_in_progress, mark_task_complete, mark_task_failed
\* or get_task_status with an id that is not in the registry returns the
\* task-does-not-exist error and changes no task and not the insertion order.
C20_UnknownIdChangesNothing ==
    [][(call'.op \in IdOps /\ call'.arg \notin DOMAIN tasks)
          => /\ call'.ret = NotExists
             /\ tasks' = tasks
             /\ task_order' = task_order]_vars

\* mark_task_failed has returned the error on a registry that holds tasks,
\* one of them marked before the call
C20_Witness ==
    /\ call.op = "mark_task_failed"
    /\ call.ret = NotExists
    /\ call.arg \notin DOMAIN tasks
    /\ call.replaced # {}
    /\ tasks # <<>>

-----------------------------------------------------------------------------
(* Properties of the scenarios of a run *)

\* task id names a dependency that is not in the registry
HasUnknownDep(id) ==
    \E k \in 1..Len(tasks[id].dependencies) : tasks[id].dependencies[k] \notin Registered

\* id is one of the tasks of the sequence of ids r
Among(id, r) == \E k \in 1..Len(r) : r[k] = id

\* the wave has its ready set and has marked none of its tasks yet
WaveEntered == pc = "mark" /\ idx = 1

\* C21: a dependency id that names no task never blocks.  A Pending task
\* with such a dependency, whose registered dependencies are all Completed,
\* is in the ready set; when a wave is entered it is among the tasks of the
\* wave, and every task of a wave has an invocation.
C21_UnknownDependencyNeverBlocks ==
    /\ \A id \in Registered :
          (HasUnknownDep(id) /\ Eligible(id))
          => /\ Among(id, GetAllReadyTasks(tasks, task_order))
             /\ WaveEntered => Among(id, ready_tasks)
    /\ pc = "gather"
       => /\ Len(inv) = Len(ready_tasks)
          /\ \A k \in 1..Len(ready_tasks) : dispatched[ready_tasks[k]] >= 1

\* a task that depends on a task of the list and on an id that names no task
\* runs, after the task it depends on has completed
C21_Witness ==
    /\ pc = "gather"
    /\ ListedOnce
    /\ \E id \in Registered :
          /\ HasUnknownDep(id)
          /\ RegisteredDeps(id) # {}
          /\ \E i \in Running : ready_tasks[i] = id

\* a failure stamped f was applied before one stamped g, or is the same
Earlier(f, g) == f.wave < g.wave \/ (f.wave = g.wave /\ f.slot <= g.slot)

\* the failure history of task id is in the order of the attempts
Chronological(id) ==
    \A i, j \in 1..Len(tasks[id].failure_history) :
        i < j => Earlier(tasks[id].failure_history[i], tasks[id].failure_history[j])

\* C22: in a run, retry_count is the number of failed attempts so far and
\* failure_history holds them in chronological order; and once an attempt
\* has succeeded the task stays Completed with that retry_count and that
\* history until the run has ended.  So a task whose first k attempts fail
\* and whose next one succeeds ends the run Completed with retry_count k and
\* k entries.
C22_FailsThenSucceeds ==
    /\ [](\A id \in Registered :
            /\ tasks[id].retry_count = Len(tasks[id].failure_history)
            /\ Chronological(id))
    /\ [][\A id \in Registered :
            (tasks[id].status = COMPLETED /\ pc # "done")
            => /\ id \in DOMAIN tasks'
               /\ tasks'[id].status = COMPLETED
               /\ tasks'[id].retry_count = tasks[id].retry_count
               /\ tasks'[id].failure_history = tasks[id].failure_history]_vars

\* C23: a task is dispatched at most once per wave; a task that is Failed was
\* dispatched exactly max_retries times and has retry_count max_retries, is
\* not in the ready set, and when the run has ended the verdict of the report
\* is some-failed.
C23_AlwaysFailing ==
    \A id \in Registered :
        /\ dispatched[id] <= n_waves
        /\ tasks[id].status = FAILED
           => /\ dispatched[id] = max_retries
              /\ tasks[id].retry_count = max_retries
              /\ ~Among(id, GetAllReadyTasks(tasks, task_order))
              /\ pc = "done" => report.verdict = "Some tasks failed"

\* a wave is under way: its tasks are being marked, run, or their results applied
InWave == pc \in {"mark", "gather", "apply"}

\* the registry holds the chain of two tasks: task 2 depends on task 1
IsChain2 ==
    /\ task_order = <<"1", "2">>
    /\ tasks["1"].dependencies = <<>>
    /\ tasks["2"].dependencies = <<"1">>

\* no attempt of the run has failed so far
NoFailure == \A id \in Registered : tasks[id].retry_count = 0

\* C24: every registered dependency of a task of the wave under way is
\* Completed, by a result of an earlier wave.  In the run of the chain of two
\* tasks without a failure, wave 1 has task 1 only, wave 2 has task 2 only,
\* there is no third wave, and the report lists both tasks completed, of 2.
C24_DependentsRunInLaterWave ==
    /\ InWave =>
          \A k \in 1..Len(ready_tasks) :
              \A d \in RegisteredDeps(ready_tasks[k]) :
                  /\ tasks[d].status = COMPLETED
                  /\ tasks[d].result.wave < wave
    /\ (IsChain2 /\ NoFailure) =>
          /\ InWave => /\ wave \in {1, 2}
                       /\ wave = 1 => ready_tasks = <<"1">>
                       /\ wave = 2 => ready_tasks = <<"2">>
          /\ pc = "done" => /\ n_waves = 2
                            /\ report.completed = <<"1", "2">>
                            /\ report.total = 2
                            /\ report.verdict = "All tasks completed successfully!"

\* the run of the chain of two tasks has ended without a failure, task 2
\* completed one wave after task 1
C24_Witness ==
    /\ IsChain2
    /\ NoFailure
    /\ pc = "done"
    /\ tasks["1"].result.wave = 1
    /\ tasks["2"].result.wave = 2

\* the registry holds two tasks without dependencies
IsPair ==
    /\ task_order = <<"1", "2">>
    /\ tasks["1"].dependencies = <<>>
    /\ tasks["2"].dependencies = <<>>

\* C25: the tasks of a wave are the whole ready set found at its start, every
\* one of them has an invocation in the wave, whatever max_concurrent is, and
\* every invocation has ended when the results are applied.  In the first
\* wave of two tasks without dependencies, with max_concurrent 2, both tasks
\* are dispatched.
C25_WholeReadySetInWave ==
    /\ WaveEntered => ready_tasks = GetAllReadyTasks(tasks, task_order)
    /\ pc = "gather" => Len(inv) = Len(ready_tasks)
    /\ pc = "apply" => /\ Len(inv) = Len(ready_tasks)
                       /\ \A i \in 1..Len(inv) : inv[i] = "done"
    /\ (IsPair /\ max_concurrent = 2 /\ wave = 1 /\ InWave)
       => /\ ready_tasks = <<"1", "2">>
          /\ pc \in {"gather", "apply"} => dispatched["1"] = 1 /\ dispatched["2"] = 1

\* a first wave of two tasks with max_concurrent 1: one invocation holds the
\* slot while the other, of the same wave, waits for it
C25_Witness ==
    /\ pc = "gather"
    /\ wave = 1
    /\ max_concurrent = 1
    /\ IsPair
    /\ Cardinality(Running) = 1
    /\ Cardinality(Waiting) = 1

\* task d has reached Completed: a result of a successful attempt is recorded
HasCompleted(d) == tasks[d].result.kind = "ok"

\* C26: a Pending task whose dependencies in the registry have all reached
\* Completed is in the next ready set computed, wherever it stands in the
\* insertion order and whatever the other tasks are: at the top of a wave it
\* is in the ready set; while a wave is under way it is a task of that wave,
\* unless one of its dependencies completed in this very wave; and the run
\* does not end before the wave cap with such a task left.
C26_ReadyOnceDependenciesComplete ==
    \A id \in Registered :
        (/\ tasks[id].status = PENDING
         /\ RegisteredDeps(id) # {}
         /\ \A d \in RegisteredDeps(id) : HasCompleted(d))
        => /\ pc = "wave" => Among(id, GetAllReadyTasks(tasks, task_order))
           /\ InWave => \/ Among(id, ready_tasks)
                        \/ \E d \in RegisteredDeps(id) : tasks[d].result.wave = wave
           /\ pc = "done" => StoppedAtCap

\* the result of invocation i of the wave under way is recorded on its task:
\* a success as the result of a Completed task, anything else as the last
\* entry of the task's failure_history
Recorded(i) ==
    LET task == tasks[ready_tasks[i]]
    IN IF results[i].kind = "ok"
       THEN task.status = COMPLETED /\ task.result = results[i]
       ELSE /\ task.failure_history # <<>>
            /\ task.failure_history[Len(task.failure_history)] = results[i]

\* C27: in a run on a list without repeated ids, whatever an invocation
\* raises, the scheduler does not stop: the result loop goes through every
\* result of the wave, the raise counted as a failed attempt of its own task
\* with what was raised as the reason, the results of the other invocations
\* recorded on their tasks, and the run goes on to the next wave.
C27_RaiseIsOneFailedAttempt ==
    ListedOnce =>
        /\ pc # "crashed"
        /\ pc = "apply" => \A i \in 1..(idx - 1) : Recorded(i)

\* the number of outcomes applied to task id so far: its failed attempts, and
\* the successful one if it is Completed
OutcomesApplied(id) ==
    tasks[id].retry_count + (IF tasks[id].status = COMPLETED THEN 1 ELSE 0)

\* between two waves, or after the run: the next ready set is computed, or
\* execute_all_tasks_parallel has returned or raised
AtWaveBoundary == pc \in {"wave", "done", "crashed"}

\* C28: between two waves and after the run no task is Running, and, on a
\* list without repeated ids, every task has had as many outcomes applied as
\* invocations dispatched.
C28_OutcomesAppliedNoTaskRunning ==
    AtWaveBoundary =>
        \A id \in Registered :
            /\ tasks[id].status # IN_PROGRESS
            /\ ListedOnce => OutcomesApplied(id) = dispatched[id]

(* Properties of the query methods *)

AllCompletedVerdict == "All tasks completed successfully!"
SomeFailedVerdict == "Some tasks failed"
InProgressVerdict == "Tasks in progress..."

\* C29: the report a call of get_final_summary returns closes with one of the
\* three verdicts: all-completed exactly when every task of the registry is
\* Completed, otherwise some-failed exactly when a task is Failed, otherwise
\* in-progress; and the number of completed tasks it gives is at most the
\* number of tasks in the registry.
C29_OneVerdictCountWithinTotal ==
    call.op = "get_final_summary" =>
        LET every == \A id \in Registered : tasks[id].status = COMPLETED
            some == \E id \in Registered : tasks[id].status = FAILED
        IN /\ call.ret.verdict \in {AllCompletedVerdict, SomeFailedVerdict, InProgressVerdict}
           /\ call.ret.verdict = AllCompletedVerdict <=> every
           /\ call.ret.verdict = SomeFailedVerdict <=> (~every /\ some)
           /\ call.ret.verdict = InProgressVerdict <=> (~every /\ ~some)
           /\ Len(call.ret.completed) <= Cardinality(Registered)

\* the methods that only read the registry
QueryOps == {"get_all_ready_tasks", "get_next_task", "get_todo_list", "get_task_status",
             "is_all_completed", "has_failed_tasks", "get_final_summary"}

\* C30: a call of get_all_ready_tasks, get_next_task, get_todo_list,
\* get_task_status, is_all_completed, has_failed_tasks or get_final_summary
\* leaves every task of the registry as it was (status, result, retry_count,
\* failure_history) and the insertion order as it was, in whatever state the
\* registry is.
C30_QueriesChangeNothing ==
    [][call'.op \in QueryOps => (tasks' = tasks /\ task_order' = task_order)]_vars

\* get_next_task has returned a task of a registry in the middle of its work,
\* one task Running and one with a failed attempt, and the task returned is
\* still Pending
C30_Witness ==
    /\ call.op = "get_next_task"
    /\ call.ret \in Registered
    /\ tasks[call.ret].status = PENDING
    /\ \E id \in Registered : tasks[id].status = IN_PROGRESS
    /\ \E id \in Registered : tasks[id].retry_count > 0

(* execute_task_with_manager of main.py: the Manager Agent plans with its
   tools, then the final summary is built and the answer is written *)

\* manager_agent.run(planning_prompt) is entered; with continue_from_previous
\* the prompt carries get_todo_list() of the registry left by the call before
ManagerStarts ==
    /\ pc = "idle"
    /\ \E continue_from_previous \in BOOLEAN :
          call' = [op |-> "execute_task_with_manager",
                   arg |-> continue_from_previous,
                   ret |-> IF continue_from_previous
                           THEN GetTodoList(tasks, task_order) ELSE "none",
                   replaced |-> Marked(tasks)]
    /\ pc' = "planning"
    /\ UNCHANGED <<tasks, task_order, max_concurrent, wave, ready_tasks, idx, inv,
                   results, sem, outcome, report, dispatched, n_waves, posted, prompt, n_calls>>
    /\ UNCHANGED boardVars

\* the Manager Agent calls its tool create_todo_list
ManagerCreatesTodoList ==
    /\ pc = "planning"
    /\ \E tasks_json \in ApiInputs :
          LET r == CreateTodoListOn(tasks, task_order, tasks_json)
          IN /\ tasks' = r.tasks
             /\ task_order' = r.task_order
             /\ dispatched' = [id \in DOMAIN r.tasks |-> 0]
             /\ posted' = [id \in DOMAIN r.tasks |-> 0]
             /\ call' = [op |-> "create_todo_list", arg |-> tasks_json, ret |-> r.ret,
                         replaced |-> Marked(tasks)]
    /\ UNCHANGED <<pc, max_concurrent, wave, ready_tasks, idx, inv, results, sem,
                   outcome, report, n_waves, prompt, n_calls>>
    /\ UNCHANGED boardVars

\* the Manager Agent calls its tool get_todo_list
ManagerGetsTodoList ==
    /\ pc = "planning"
    /\ call' = [op |-> "get_todo_list", arg |-> "none",
                ret |-> GetTodoList(tasks, task_order), replaced |-> Marked(tasks)]
    /\ UNCHANGED <<regVars, runVars, n_calls, boardVars>>

\* manager_agent.run(planning_prompt) returns; the next statement that
\* touches the registry is final_summary = task_manager.get_final_summary()
ManagerFinalSummary ==
    /\ pc = "planning"
    /\ report' = GetFinalSummary(tasks, task_order)
    /\ pc' = "summarised"
    /\ UNCHANGED <<tasks, task_order, max_concurrent, wave, ready_tasks, idx, inv,
                   results, sem, outcome, dispatched, n_waves, posted, prompt>>
    /\ UNCHANGED <<apiVars, boardVars>>

\* manager_agent.run(summary_prompt) gives the answer, or raises and
\* final_summary is returned in its place
ManagerAnswers ==
    /\ pc = "summarised"
    /\ \E answered \in BOOLEAN :
          call' = [op |-> "return", arg |-> "none",
                   ret |-> IF answered THEN "final_result.output" ELSE "final_summary",
                   replaced |-> Marked(tasks)]
    /\ pc' = "idle"
    /\ report' = NoReport
    /\ UNCHANGED <<tasks, task_order, max_concurrent, wave, ready_tasks, idx, inv,
                   results, sem, outcome, dispatched, n_waves, posted, prompt, n_calls>>
    /\ UNCHANGED boardVars

\* main: the user enters a new task, task_manager.reset()
ManagerReset ==
    /\ pc = "idle"
    /\ tasks # <<>>
    /\ tasks' = <<>>
    /\ task_order' = <<>>
    /\ dispatched' = <<>>
    /\ posted' = <<>>
    /\ call' = [op |-> "reset", arg |-> "none", ret |-> "none", replaced |-> Marked(tasks)]
    /\ UNCHANGED <<pc, max_concurrent, wave, ready_tasks, idx, inv, results, sem,
                   outcome, report, n_waves, prompt, n_calls>>
    /\ UNCHANGED boardVars

NextManager ==
    \/ ManagerStarts
    \/ ManagerCreatesTodoList
    \/ ManagerGetsTodoList
    \/ ManagerFinalSummary
    \/ ManagerAnswers
    \/ ManagerReset

SpecManager == Init /\ [][NextManager]_vars

\* C31: when execute_task_with_manager has built the final summary, every task
\* of the list that is ready (Pending with its dependencies satisfied) has
\* been dispatched to a worker at least once.
C31_ExecutedBeforeSummary ==
    pc = "summarised" =>
        \A id \in Registered : IsReady(tasks, id) => dispatched[id] > 0

(* Properties of mark_task_failed and of the waves *)

\* the result loop applies a failure to a task that is Running
FailureApplied ==
    /\ pc = "apply"
    /\ idx' = idx + 1
    /\ results[idx].kind # "ok"
    /\ tasks[ready_tasks[idx]].status = IN_PROGRESS

\* C32: mark_task_failed on a Running task appends the reason to its
\* failure_history, adds exactly 1 to its retry_count, and makes it Pending if
\* the new retry_count is below max_retries and Failed otherwise; its result
\* and dependencies, every other task and the insertion order are unchanged.
C32_FailureOnRunningTask ==
    [][FailureApplied =>
          /\ tasks'[ready_tasks[idx]].failure_history
                = Append(tasks[ready_tasks[idx]].failure_history, results[idx])
          /\ tasks'[ready_tasks[idx]].retry_count = tasks[ready_tasks[idx]].retry_count + 1
          /\ tasks'[ready_tasks[idx]].status =
                IF tasks'[ready_tasks[idx]].retry_count < tasks[ready_tasks[idx]].max_retries
                THEN PENDING ELSE FAILED
          /\ tasks'[ready_tasks[idx]].result = tasks[ready_tasks[idx]].result
          /\ tasks'[ready_tasks[idx]].dependencies = tasks[ready_tasks[idx]].dependencies
          /\ tasks'[ready_tasks[idx]].max_retries = tasks[ready_tasks[idx]].max_retries
          /\ DOMAIN tasks' = DOMAIN tasks
          /\ \A other \in DOMAIN tasks \ {ready_tasks[idx]} : tasks'[other] = tasks[other]
          /\ task_order' = task_order]_vars

\* the third failure of a task has just been applied while it was Running, on
\* a list without repeated ids that has another task, Completed with its result
C32_Witness ==
    /\ ListedOnce
    /\ pc = "apply"
    /\ idx > 1
    /\ results[idx - 1].kind # "ok"
    /\ tasks[ready_tasks[idx - 1]].status = FAILED
    /\ tasks[ready_tasks[idx - 1]].retry_count = max_retries
    /\ Len(tasks[ready_tasks[idx - 1]].failure_history) = max_retries
    /\ \E other \in Registered : tasks[other].status = COMPLETED

\* C33: while the invocations of a wave are in flight every task of the wave
\* is Running, marked before the first invocation was handed to gather, and no
\* two invocations of the wave are for the same task.
C33_MarkedThenDispatchedOnce ==
    pc = "gather" =>
        /\ \A k \in 1..Len(ready_tasks) : tasks[ready_tasks[k]].status = IN_PROGRESS
        /\ Len(inv) = Len(ready_tasks)
        /\ \A i, j \in 1..Len(inv) : ready_tasks[i] = ready_tasks[j] => i = j

\* an invocation of the wave has been handed to gather and has not ended
InFlight == \E i \in 1..Len(inv) : inv[i] # "done"

\* C34: while an invocation of a wave is in flight, every task of the wave is
\* Running and no step changes a task or the insertion order, so no result is
\* applied and no invocation writes to the registry; and when the next ready
\* set is computed, no task is Running and, on a list without repeated ids,
\* every task has had as many outcomes applied as invocations dispatched.
C34_RegistryStillWhileInFlight ==
    /\ [](InFlight =>
            /\ pc = "gather"
            /\ \A k \in 1..Len(ready_tasks) : tasks[ready_tasks[k]].status = IN_PROGRESS)
    /\ [](pc = "wave" =>
            \A id \in Registered :
                /\ tasks[id].status # IN_PROGRESS
                /\ ListedOnce => OutcomesApplied(id) = dispatched[id])
    /\ [][InFlight => (tasks' = tasks /\ task_order' = task_order)]_vars

\* one invocation of a wave of two tasks has ended in failure while the other
\* is running: the failure waits in the results, its task still Running
\* without a failed attempt
C34_Witness ==
    /\ pc = "gather"
    /\ Len(inv) = 2
    /\ inv[1] = "done"
    /\ results[1].kind = "fail"
    /\ inv[2] = "running"
    /\ ready_tasks[1] # ready_tasks[2]
    /\ tasks[ready_tasks[1]].status = IN_PROGRESS
    /\ tasks[ready_tasks[1]].retry_count = 0

\* the failure stamped f was applied before the one stamped g
Before(f, g) == f.wave < g.wave \/ (f.wave = g.wave /\ f.slot < g.slot)

\* C35: in every state of the registry, whatever calls of create_todo_list
\* and of the mark operations led to it, the failure_history of each task has
\* exactly retry_count entries, each applied before the one that follows it.
C35_HistoryCountsFailures ==
    \A id \in Registered :
        /\ Len(tasks[id].failure_history) = tasks[id].retry_count
        /\ \A i, j \in 1..Len(tasks[id].failure_history) :
              i < j => Before(tasks[id].failure_history[i], tasks[id].failure_history[j])

\* a task has failed twice and has been completed since, another task of the
\* registry has never failed
C35_Witness ==
    \E id, other \in Registered :
        /\ tasks[id].retry_count = 2
        /\ Len(tasks[id].failure_history) = 2
        /\ tasks[id].status = COMPLETED
        /\ tasks[other].retry_count = 0
        /\ tasks[other].failure_history = <<>>
        /\ other # id

(* Properties of the prompt of an invocation *)

\* invocation i of the wave under way has built its prompt
Prompted(i) == pc = "gather" /\ inv[i] # "waiting"

\* C36: the prompt of an invocation has the retry part exactly when its task
\* has a failed attempt behind it (on a list without repeated ids: when the
\* task was dispatched before), and the part then lists every failure of the
\* task so far, one for each earlier attempt, in the order they were applied,
\* and no failure recorded for another task.
C36_RetryContextIsOwnHistory ==
    \A i \in 1..Len(inv) :
        Prompted(i) =>
            /\ prompt[i].retry <=> tasks[ready_tasks[i]].retry_count > 0
            /\ ListedOnce =>
                  /\ prompt[i].retry <=> dispatched[ready_tasks[i]] > 1
                  /\ Len(prompt[i].failures) = dispatched[ready_tasks[i]] - 1
            /\ prompt[i].failures = tasks[ready_tasks[i]].failure_history
            /\ \A k, m \in 1..Len(prompt[i].failures) :
                  k < m => Before(prompt[i].failures[k], prompt[i].failures[m])
            /\ \A other \in Registered \ {ready_tasks[i]} :
                  \A k \in 1..Len(prompt[i].failures) :
                      \A m \in 1..Len(tasks[other].failure_history) :
                          prompt[i].failures[k] # tasks[other].failure_history[m]

\* the third attempt of a task is running with its two failures in the
\* prompt, while another task of the registry has failures of its own
C36_Witness ==
    \E i \in 1..Len(inv) :
        /\ Prompted(i)
        /\ inv[i] = "running"
        /\ prompt[i].retry
        /\ prompt[i].attempt = 2
        /\ Len(prompt[i].failures) = 2
        /\ \E other \in Registered \ {ready_tasks[i]} : tasks[other].failure_history # <<>>

(* Properties of the defaults of create_todo_list *)

\* entry k of the insertion order names a task listed once
ListedOnceAt(k) == \A j \in 1..Len(task_order) : task_order[j] = task_order[k] => j = k

\* C37: when create_todo_list has returned without error, a record of its
\* list that has no id has given the task with the record's position in the
\* list (from 1) as id, and a record that has no dependencies has given a
\* task with no dependencies.
C37_DefaultIdIsPosition ==
    Created =>
        \A k \in 1..Len(call.arg.data) :
            /\ call.arg.data[k].id = NoId => task_order[k] = ToString(k)
            /\ ("dependencies" \notin DOMAIN call.arg.data[k] /\ ListedOnceAt(k))
               => tasks[task_order[k]].dependencies = <<>>

(* Properties of the single-task pull loop *)

\* the text of get_next_pending_task and the diagnosis of the scheduler say
\* the same
SameDiagnosis(text, diagnosis) ==
    \/ text = "All tasks completed!" /\ diagnosis = "all_completed"
    \/ text = "Some tasks could not be completed" /\ diagnosis = "some_failed"
    \/ text = "No executable tasks at the moment" /\ diagnosis = "no_executable"

\* C38: in every state of the registry get_next_task returns the first task
\* of get_all_ready_tasks, and None exactly when that ready set is empty; a
\* call of get_next_pending_task makes that task Running and nothing else,
\* or, when the ready set is empty, changes nothing and reports what the
\* scheduler diagnoses when it finds the ready set empty.
C38_PullLoopIsOneTaskWave ==
    /\ [](LET ready == GetAllReadyTasks(tasks, task_order)
          IN GetNextTask(tasks, task_order) = IF ready = <<>> THEN NoTask ELSE ready[1])
    /\ [][call'.op = "get_next_pending_task" =>
             /\ task_order' = task_order
             /\ IF GetAllReadyTasks(tasks, task_order) # <<>>
                THEN /\ call'.ret.next = GetAllReadyTasks(tasks, task_order)[1]
                     /\ tasks' = [tasks EXCEPT ![call'.ret.next].status = IN_PROGRESS]
                ELSE /\ tasks' = tasks
                     /\ call'.ret.next = NoTask
                     /\ SameDiagnosis(call'.ret.text, Diagnosis(tasks))]_vars

\* get_next_pending_task has handed out the second task of the list, whose
\* dependency is Completed, and made it Running
C38_Witness ==
    /\ call.op = "get_next_pending_task"
    /\ task_order = <<"1", "2">>
    /\ tasks["1"].status = COMPLETED
    /\ tasks["2"].dependencies = <<"1">>
    /\ call.ret.next = "2"
    /\ tasks["2"].status = IN_PROGRESS

(* execute_all_tasks_parallel on long dependency chains, with workers that
   fail in the first wave only *)

\* the chains that need as many waves as the loop has, and one more
LongChains == {Chain(max_waves), Chain(max_waves + 1)}

\* create_todo_list on a long chain, on the registry as reset
CreateLongChain ==
    /\ pc = "idle"
    /\ \E tasks_data \in LongChains :
          LET r == CreateLoop(tasks_data, <<>>, <<>>)
          IN /\ tasks' = r.tasks
             /\ task_order' = r.task_order
             /\ dispatched' = [id \in DOMAIN r.tasks |-> 0]
             /\ posted' = [id \in DOMAIN r.tasks |-> 0]
    /\ pc' = "planned"
    /\ NoRun
    /\ UNCHANGED <<apiVars, boardVars>>

\* _run_one with executors that return something else than a success in the
\* waves of FaultWaves only
WorkerEndsLong(i) ==
    /\ pc = "gather"
    /\ inv[i] = "running"
    /\ \E kind \in Outcomes :
          /\ kind # "ok" => wave \in FaultWaves
          /\ results' = [results EXCEPT ![i] = [kind |-> kind, wave |-> wave, slot |-> i]]
          /\ posted' = [posted EXCEPT ![ready_tasks[i]] = @ + PostsOfAttempt(kind)]
    /\ sem' = sem + 1
    /\ inv' = [inv EXCEPT ![i] = "done"]
    /\ UNCHANGED <<tasks, task_order, pc, max_concurrent, wave, ready_tasks, idx,
                   outcome, report, dispatched, n_waves, prompt>>
    /\ UNCHANGED <<apiVars, boardVars>>

NextLong ==
    \/ CreateTodoList
    \/ CreateLongChain
    \/ Reset
    \/ StartRun
    \/ WaveStart
    \/ MarkReady
    \/ Dispatch
    \/ \E i \in 1..Len(inv) : Acquire(i)
    \/ \E i \in 1..Len(inv) : WorkerEndsLong(i)
    \/ GatherReturns
    \/ ApplyResult
    \/ NextWave

SpecLong == Init /\ [][NextLong]_vars

\* the greatest element of a set of naturals, 0 for the empty set
Greatest(S) == IF S = {} THEN 0 ELSE CHOOSE m \in S : \A x \in S : x <= m

\* the number of tasks on the longest path of registered dependencies that
\* ends in task id, followed for at most n tasks
RECURSIVE DepthWithin(_, _)

DepthWithin(id, n) ==
    IF n = 0 THEN 0
    ELSE 1 + Greatest({DepthWithin(d, n - 1) : d \in RegisteredDeps(id)})

Depth(id) == DepthWithin(id, Cardinality(Registered) + 1)

\* no path of dependencies comes back to its task
Acyclic == \A id \in Registered : Depth(id) <= Cardinality(Registered)

\* every dependency names a task of the registry
AllDepsExist ==
    \A id \in Registered :
        \A i \in 1..Len(tasks[id].dependencies) : tasks[id].dependencies[i] \in Registered

\* the longest dependency chain of the registry
LongestChain == Greatest({Depth(id) : id \in Registered})

\* a run has ended in which max_concurrent was at least 1, the dependencies
\* are all registered and without a cycle, and every invocation has returned
\* a success
EndedAllSucceeding ==
    /\ pc = "done"
    /\ max_concurrent >= 1
    /\ AllDepsExist
    /\ Acyclic
    /\ NoFailure

\* C39 as stated: a run on an acyclic list with every dependency registered,
\* max_concurrent at least 1 and every invocation succeeding ends with every
\* task Completed and the all-completed verdict, whatever the number of tasks
\* and the depth of the dependencies.
C39_AllSucceedAllCompleted ==
    EndedAllSucceeding =>
        /\ \A id \in Registered : tasks[id].status = COMPLETED
        /\ report.verdict = AllCompletedVerdict

\* C39 amended: such a run ends with every task Completed and the
\* all-completed verdict if the longest dependency chain has at most
\* max_waves tasks; with a longer chain the run ends after max_waves waves
\* with the tasks beyond that depth Pending and the in-progress verdict.
C39_AllSucceedWithinWaveCap ==
    EndedAllSucceeding =>
        IF LongestChain <= max_waves
        THEN /\ \A id \in Registered : tasks[id].status = COMPLETED
             /\ report.verdict = AllCompletedVerdict
        ELSE /\ n_waves = max_waves
             /\ \A id \in Registered :
                   tasks[id].status = IF Depth(id) <= max_waves THEN COMPLETED ELSE PENDING
             /\ report.verdict = InProgressVerdict

\* the run of the chain of max_waves tasks has ended with every invocation
\* succeeding: its last wave completed the last task
C39_Witness ==
    /\ EndedAllSucceeding
    /\ LongestChain = max_waves
    /\ n_waves = max_waves
    /\ \A id \in Registered : tasks[id].status = COMPLETED
    /\ report.verdict = AllCompletedVerdict

(* Properties of the completed messages of the run *)

\* C40: on a list without repeated ids, when the results of a wave have been
\* applied, the worker of a task has posted a message with status completed
\* to the board of the run only if an attempt of the task was successful.
C40_CompletedMessageMeansSuccess ==
    (ListedOnce /\ pc \in {"wave", "done"}) =>
        \A id \in Registered : posted[id] > 0 => HasCompleted(id)
====
